---- MODULE Spec2Model ----
(***************************************************************************)
(* Model of sebastian/core/transforms.py: the transforms that a caller     *)
(* pipes an OSequence of Points through.                                   *)
(*                                                                         *)
(* Points are mutable Python dicts, so they live in a heap and a sequence  *)
(* is a list of references into it.  A lifted per-point transform mutates  *)
(* the objects it is handed; reverse and dynamics copy them first.         *)
(***************************************************************************)
EXTENDS Integers, Sequences, FiniteSets, TLC

VARIABLES heap,   \* heap[r]: the Point object with reference r
          seq,    \* the sequence the pipeline currently holds, as references
          input,  \* the Point values of the sequence the caller started from
          prev,   \* the Point values handed to the last transform
          hist,   \* the transforms applied so far, oldest first
          err     \* the exception that ended the pipeline, if any

vars == <<heap, seq, input, prev, hist, err>>

(***************************************************************************)
(* Bounds of the model.                                                    *)
(***************************************************************************)
MaxLen == 2      \* longest sequence handed to reverse
MaxOffset == 4   \* largest offset of an input point
MaxDur == 4      \* largest duration of an input point
MaxSteps == 2    \* longest pipeline
MaxMapLen == 1   \* longest sequence handed to the per-point transforms
MaxNotes == 8    \* longest run of notes handed to dynamics
MaxAccidental == 2  \* most sharps or flats on an input pitch

(***************************************************************************)
(* Keys of a Point (sebastian.core).                                       *)
(***************************************************************************)
OFFSET_64 == "offset"
DURATION_64 == "duration"
MIDI_PITCH == "midi_pitch"

\* A transform argument: None, an int, a str or a rational multiplier n/d.
NoneArg == [kind |-> "none", n |-> 0, d |-> 1, s |-> ""]
IntArg(i) == [kind |-> "int", n |-> i, d |-> 1, s |-> ""]
StrArg(t) == [kind |-> "str", n |-> 0, d |-> 1, s |-> t]
FracArg(a, b) == [kind |-> "frac", n |-> a, d |-> b, s |-> ""]

NoErr == [type |-> "none", arg |-> NoneArg]
Raise(t, a) == [type |-> t, arg |-> a]

\* dict.get(key, default)
Get(p, k, default) == IF k \in DOMAIN p THEN p[k] ELSE default

\* p with p[k] = v assigned
Put(p, k, v) == [x \in DOMAIN p \cup {k} |-> IF x = k THEN v ELSE p[x]]

\* The Point values a list of references denotes.
Vals(h, s) == [i \in 1..Len(s) |-> h[s[i]]]

\* The same object handed on, where the transform makes no copy.
AliasPoint(h, r) == [heap |-> h, ref |-> r]

\* Point(point): a new dict object with the same items.
CopyPoint(h, r) == [heap |-> Append(h, h[r]), ref |-> Len(h) + 1]

\* Point({...}): a new dict object.
NewPoint(h, p) == [heap |-> Append(h, p), ref |-> Len(h) + 1]

(***************************************************************************)
(* OSequence                                                               *)
(***************************************************************************)
\* OSequence.next_offset(): the end-of-sequence cursor, 0 when empty.
next_offset(ps) ==
    IF Len(ps) = 0 THEN 0
    ELSE LET ends == {ps[i][OFFSET_64] + Get(ps[i], DURATION_64, 0) : i \in 1..Len(ps)}
         IN CHOOSE m \in ends : \A e \in ends : e <= m

\* left + right: a new sequence of new points, the right ones shifted by
\* left.next_offset().
RECURSIVE ConcatLoop(_, _, _, _, _)
ConcatLoop(h, s, shift, i, acc) ==
    IF i > Len(s) THEN [heap |-> h, seq |-> acc]
    ELSE LET c == NewPoint(h, Put(h[s[i]], OFFSET_64, h[s[i]][OFFSET_64] + shift))
         IN ConcatLoop(c.heap, s, shift, i + 1, Append(acc, c.ref))

Concat(h, left, right) ==
    LET l == ConcatLoop(h, left, 0, 1, <<>>)
    IN ConcatLoop(l.heap, right, next_offset(Vals(h, left)), 1, l.seq)

(***************************************************************************)
(* reverse()                                                               *)
(***************************************************************************)
\* sorted(new_elements, key=lambda x: x[OFFSET_64]): a stable sort.
RECURSIVE InsertByOffset(_, _, _)
InsertByOffset(h, s, r) ==
    IF s = <<>> THEN <<r>>
    ELSE IF h[s[Len(s)]][OFFSET_64] <= h[r][OFFSET_64] THEN Append(s, r)
    ELSE Append(InsertByOffset(h, SubSeq(s, 1, Len(s) - 1), r), s[Len(s)])

RECURSIVE SortLoop(_, _, _, _)
SortLoop(h, s, i, acc) ==
    IF i > Len(s) THEN acc ELSE SortLoop(h, s, i + 1, InsertByOffset(h, acc, s[i]))

\* The elements in the order the loop appended them.
Unsorted(h, s) == s

SortedByOffset(h, s) == SortLoop(h, s, 1, <<>>)

\* The mirrored start of a point, its duration left out.
ReflectNoDuration(p, last_offset) == last_offset - p[OFFSET_64]

\* new_point[OFFSET_64] = last_offset - new_point[OFFSET_64] - new_point.get(DURATION_64, 0)
Reflect(p, last_offset) == last_offset - p[OFFSET_64] - Get(p, DURATION_64, 0)

\* if new_point != {OFFSET_64: 0}
Kept(p) == p # (OFFSET_64 :> 0)

\* The input itself, never anchored.
NoAnchor(h, s) == [heap |-> h, seq |-> s]

\* The sequence the loop runs over: anchored at offset 0 when the input is not.
OldSequence(h, s) ==
    IF Len(s) # 0 /\ h[s[1]][OFFSET_64] # 0
    THEN LET a == NewPoint(h, (OFFSET_64 :> 0))
         IN Concat(a.heap, <<a.ref>>, s)
    ELSE [heap |-> h, seq |-> s]

\* new_point = Point(point)
ReverseNewPoint(h, r) == CopyPoint(h, r)

RECURSIVE ReverseLoop(_, _, _, _, _)
ReverseLoop(h, old, last_offset, i, new_elements) ==
    IF i > Len(old) THEN [heap |-> h, seq |-> new_elements]
    ELSE LET c == ReverseNewPoint(h, old[i])
             h2 == [c.heap EXCEPT ![c.ref] =
                        Put(@, OFFSET_64, Reflect(c.heap[c.ref], last_offset))]
         IN ReverseLoop(h2, old, last_offset, i + 1,
                        IF Kept(h2[c.ref]) THEN Append(new_elements, c.ref)
                        ELSE new_elements)

reverse(h, s) ==
    LET last_offset == next_offset(Vals(h, s))
        old_sequence == OldSequence(h, s)
        done == ReverseLoop(old_sequence.heap, old_sequence.seq, last_offset, 1, <<>>)
    IN [heap |-> done.heap, seq |-> SortedByOffset(done.heap, done.seq), err |-> NoErr]

(***************************************************************************)
(* The lifted per-point transforms                                         *)
(***************************************************************************)
\* int(x) of the rational a/b, b > 0: truncation toward zero.
IntOfRatio(a, b) == IF a >= 0 THEN a \div b ELSE -((-a) \div b)

\* A rounding stretch, for comparison: the rational a/b rounded up.
CeilOfRatio(a, b) == -((-a) \div b)

RoundedUp(value, multiplier) == CeilOfRatio(value * multiplier.n, multiplier.d)

\* int(value * multiplier), the multiplier a rational n/d
Scaled(value, multiplier) == IntOfRatio(value * multiplier.n, multiplier.d)

stretch(multiplier, point) ==
    LET p1 == Put(point, OFFSET_64, Scaled(point[OFFSET_64], multiplier))
    IN [pt |-> IF DURATION_64 \in DOMAIN p1
               THEN Put(p1, DURATION_64, Scaled(p1[DURATION_64], multiplier))
               ELSE p1,
        err |-> NoErr]

\* The interval of the pitch above the pivot.
IntervalOnly(pitch, midi_pitch_pivot) == pitch - midi_pitch_pivot

\* point[MIDI_PITCH] after invert: the pivot minus the interval above it.
Inverted(pitch, midi_pitch_pivot) == midi_pitch_pivot - (pitch - midi_pitch_pivot)

invert(midi_pitch_pivot, point) ==
    [pt |-> IF MIDI_PITCH \in DOMAIN point
            THEN Put(point, MIDI_PITCH, Inverted(point[MIDI_PITCH], midi_pitch_pivot.n))
            ELSE point,
     err |-> NoErr]

(***************************************************************************)
(* Python floats (IEEE 754 binary64, round to nearest, ties to even), as    *)
(* far as dynamics uses them.  A float is a sign and a magnitude counted in *)
(* units of 2^-60, held in four limbs of 20 bits, least significant first;  *)
(* l[4] is its integer part.  Every float dynamics computes on a sequence   *)
(* of fewer than 129 points, from velocities below 128, is such a number.   *)
(***************************************************************************)
LimbBase == 2^20

RECURSIVE BitLen(_)
BitLen(x) == IF x = 0 THEN 0 ELSE 1 + BitLen(x \div 2)

\* Limbs with their carries propagated upward.
Carried(l) ==
    LET a2 == l[2] + l[1] \div LimbBase
        a3 == l[3] + a2 \div LimbBase
    IN <<l[1] % LimbBase, a2 % LimbBase, a3 % LimbBase, l[4] + a3 \div LimbBase>>

Digits(l) ==
    IF l[4] > 0 THEN 60 + BitLen(l[4])
    ELSE IF l[3] > 0 THEN 40 + BitLen(l[3])
    ELSE IF l[2] > 0 THEN 20 + BitLen(l[2])
    ELSE BitLen(l[1])

\* A magnitude rounded to 53 significant bits; inexact: more of it lies below
\* the last limb.
Rounded(l, inexact) ==
    LET drop == Digits(l) - 53
    IN IF drop <= 0 THEN l
       ELSE LET g == 2^drop
                low == l[1] % g
                odd == (l[1] \div g) % 2 = 1
                up == low > g \div 2 \/ (low = g \div 2 /\ (inexact \/ odd))
            IN Carried(<<l[1] - low + (IF up THEN g ELSE 0), l[2], l[3], l[4]>>)

\* float(i)
FloatOfInt(i) == [neg |-> i < 0, l |-> <<0, 0, 0, IF i < 0 THEN -i ELSE i>>]

\* float(a) - float(b): exact on the velocities.
FloatSub(a, b) == FloatOfInt(a - b)

\* x / m for the float x of an integer and the int m > 0
FloatDiv(x, m) ==
    LET q3 == x.l[4] \div m
        r3 == x.l[4] % m
        q2 == (r3 * LimbBase) \div m
        r2 == (r3 * LimbBase) % m
        q1 == (r2 * LimbBase) \div m
        r1 == (r2 * LimbBase) % m
        q0 == (r1 * LimbBase) \div m
        r0 == (r1 * LimbBase) % m
    IN [neg |-> x.neg, l |-> Rounded(<<q0, q1, q2, q3>>, r0 # 0)]

\* x * k for the int k >= 0
FloatMul(x, k) ==
    [neg |-> x.neg,
     l |-> Rounded(Carried(<<x.l[1] * k, x.l[2] * k, x.l[3] * k, x.l[4] * k>>), FALSE)]

\* a - b on magnitudes, a >= b
LimbsMinus(a, b) ==
    LET d1 == a[1] - b[1]
        c1 == IF d1 < 0 THEN 1 ELSE 0
        d2 == a[2] - b[2] - c1
        c2 == IF d2 < 0 THEN 1 ELSE 0
        d3 == a[3] - b[3] - c2
        c3 == IF d3 < 0 THEN 1 ELSE 0
    IN <<d1 + c1 * LimbBase, d2 + c2 * LimbBase, d3 + c3 * LimbBase, a[4] - b[4] - c3>>

\* i + x for the int i >= 0
FloatAdd(i, x) ==
    LET whole == <<0, 0, 0, i>>
        under == x.l[4] < i \/ (x.l[4] = i /\ x.l[1] = 0 /\ x.l[2] = 0 /\ x.l[3] = 0)
    IN IF ~x.neg
       THEN [neg |-> FALSE, l |-> Rounded(<<x.l[1], x.l[2], x.l[3], x.l[4] + i>>, FALSE)]
       ELSE IF under
       THEN [neg |-> FALSE, l |-> Rounded(LimbsMinus(whole, x.l), FALSE)]
       ELSE [neg |-> TRUE, l |-> Rounded(LimbsMinus(x.l, whole), FALSE)]

\* int(x): truncation toward zero
IntOfFloat(x) == IF x.neg THEN -x.l[4] ELSE x.l[4]

(***************************************************************************)
(* lilypond                                                                *)
(***************************************************************************)
\* sebastian.core.notes.modifiers: the signed number of accidentals folded
\* into the pitch index beyond 0..6.
modifiers(pitch) == pitch \div 7

\* sebastian.core.notes.letter: the letter name of the pitch.
letter(pitch) == <<"C", "D", "E", "F", "G", "A", "B">>[(pitch % 7) + 1]

\* str.lower() on a letter name
lower(c) == [C |-> "c", D |-> "d", E |-> "e", F |-> "f", G |-> "g", A |-> "a", B |-> "b"][c]

\* token * k: a Python string repeated; empty when k <= 0.
RECURSIVE Times(_, _)
Times(token, k) == IF k <= 0 THEN <<>> ELSE <<token>> \o Times(token, k - 1)

\* The rendered string, as the tokens it is joined from.
lilypond(point) ==
    IF "lilypond" \in DOMAIN point THEN [pt |-> point, err |-> NoErr]
    ELSE IF "octave" \notin DOMAIN point
    THEN [pt |-> point, err |-> Raise("KeyError", StrArg("octave"))]
    ELSE IF "pitch" \notin DOMAIN point
    THEN [pt |-> point, err |-> Raise("KeyError", StrArg("pitch"))]
    ELSE IF DURATION_64 \notin DOMAIN point
    THEN [pt |-> point, err |-> Raise("KeyError", StrArg(DURATION_64))]
    ELSE LET octave == point["octave"]
             pitch == point["pitch"]
             duration == point[DURATION_64]
             octave_string == IF octave > 4 THEN Times("'", octave - 4)
                              ELSE IF octave < 4 THEN Times(",", 4 - octave)
                              ELSE <<>>
             m == modifiers(pitch)
             modifier_string == IF m > 0 THEN Times("is", m)
                                ELSE IF m < 0 THEN Times("es", m)
                                ELSE <<>>
             pitch_string == <<lower(letter(pitch))>> \o modifier_string
         IN IF duration = 0
            THEN [pt |-> point, err |-> Raise("ZeroDivisionError", NoneArg)]
            ELSE [pt |-> Put(point, "lilypond",
                             pitch_string \o octave_string
                                 \o <<ToString(IntOfRatio(64, duration))>>),
                  err |-> NoErr]

(***************************************************************************)
(* dynamics                                                                *)
(***************************************************************************)
_dynamic_markers_to_velocity ==
    [pppppp |-> 10, ppppp |-> 16, pppp |-> 20, ppp |-> 24, pp |-> 36, p |-> 48,
     mp |-> 64, mf |-> 74, f |-> 84, ff |-> 94, fff |-> 114, ffff |-> 127]

\* isinstance(x, int) or x in _dynamic_markers_to_velocity
IsDynamic(x) ==
    x.kind = "int" \/ (x.kind = "str" /\ x.s \in DOMAIN _dynamic_markers_to_velocity)

Velocity(x) == IF x.kind = "int" THEN x.n ELSE _dynamic_markers_to_velocity[x.s]

\* Point(point) for point in sequence._elements
DynamicsNewPoint(h, r) == CopyPoint(h, r)

RECURSIVE CopyLoop(_, _, _, _)
CopyLoop(h, s, i, acc) ==
    IF i > Len(s) THEN [heap |-> h, seq |-> acc]
    ELSE LET c == DynamicsNewPoint(h, s[i])
         IN CopyLoop(c.heap, s, i + 1, Append(acc, c.ref))

\* int(start_velocity + velocity_interval * pos)
VelocityAt(start_velocity, velocity_interval, pos) ==
    IntOfFloat(FloatAdd(start_velocity, FloatMul(velocity_interval, pos)))

RECURSIVE AssignLoop(_, _, _, _, _)
AssignLoop(h, retval, start_velocity, velocity_interval, i) ==
    IF i > Len(retval) THEN h
    ELSE AssignLoop([h EXCEPT ![retval[i]] =
                         Put(@, "velocity",
                             VelocityAt(start_velocity, velocity_interval, i - 1))],
                    retval, start_velocity, velocity_interval, i + 1)

dynamics(start, end, h, s) ==
    IF ~IsDynamic(start) THEN [heap |-> h, seq |-> s, err |-> Raise("ValueError", start)]
    ELSE IF end # NoneArg /\ ~IsDynamic(end)
    THEN [heap |-> h, seq |-> s, err |-> Raise("ValueError", start)]
    ELSE LET start_velocity == Velocity(start)
             end_velocity == IF end = NoneArg THEN start_velocity ELSE Velocity(end)
             retval == CopyLoop(h, s, 1, <<>>)
         IN IF Len(retval.seq) = 0
            THEN [heap |-> retval.heap, seq |-> retval.seq, err |-> NoErr]
            ELSE IF Len(s) - 1 = 0
            THEN [heap |-> retval.heap, seq |-> s,
                  err |-> Raise("ZeroDivisionError", NoneArg)]
            ELSE LET velocity_interval ==
                         FloatDiv(FloatSub(end_velocity, start_velocity), Len(s) - 1)
                 IN [heap |-> AssignLoop(retval.heap, retval.seq, start_velocity,
                                         velocity_interval, 1),
                     seq |-> retval.seq, err |-> NoErr]

(***************************************************************************)
(* transform_sequence: lifting a point function to sequences               *)
(***************************************************************************)
\* partial(f, *args): the point function of a lifted transform.
Apply(o, point) ==
    CASE o.op = "stretch" -> stretch(o.a, point)
      [] o.op = "invert" -> invert(o.a, point)
      [] o.op = "lilypond" -> lilypond(point)

\* seq.map_points(f): f on every point in order, each mutated in place; the
\* new sequence holds the points f returned.  A raise ends the loop.
RECURSIVE map_points(_, _, _, _)
map_points(o, h, s, i) ==
    IF i > Len(s) THEN [heap |-> h, seq |-> s, err |-> NoErr]
    ELSE LET r == Apply(o, h[s[i]])
             h2 == [h EXCEPT ![s[i]] = r.pt]
         IN IF r.err # NoErr THEN [heap |-> h2, seq |-> s, err |-> r.err]
            ELSE map_points(o, h2, s, i + 1)

\* transform_sequence(f)(*args): lambda seq: seq.map_points(partial(f, *args))
transform_sequence(o, h, s) == map_points(o, h, s, 1)

(***************************************************************************)
(* The pipeline: one action per transform.                                 *)
(***************************************************************************)
Op(name, a, b) == [op |-> name, a |-> a, b |-> b]

CanApply == err = NoErr /\ Len(hist) < MaxSteps

\* A transform that raises returns nothing: the pipeline keeps no new sequence.
Commit(r, o) ==
    /\ heap' = r.heap
    /\ seq' = IF r.err = NoErr THEN r.seq ELSE seq
    /\ err' = r.err
    /\ prev' = Vals(heap, seq)
    /\ hist' = Append(hist, o)
    /\ UNCHANGED input

Reverse ==
    /\ CanApply
    /\ Commit(reverse(heap, seq), Op("reverse", NoneArg, NoneArg))

Multipliers == {FracArg(1, 2), FracArg(2, 3), FracArg(3, 2), FracArg(2, 1)}

Pivots == {IntArg(60), IntArg(64)}

Stretch ==
    /\ CanApply
    /\ \E m \in Multipliers :
           LET o == Op("stretch", m, NoneArg)
           IN Commit(transform_sequence(o, heap, seq), o)

Invert ==
    /\ CanApply
    /\ \E p \in Pivots :
           LET o == Op("invert", p, NoneArg)
           IN Commit(transform_sequence(o, heap, seq), o)

Lilypond ==
    /\ CanApply
    /\ LET o == Op("lilypond", NoneArg, NoneArg)
       IN Commit(transform_sequence(o, heap, seq), o)

Starts == {IntArg(0), StrArg("p"), StrArg("xx")}

Ends == {NoneArg, IntArg(0), IntArg(61), StrArg("f"), StrArg("yy")}

Dynamics ==
    /\ CanApply
    /\ \E start \in Starts, end \in Ends :
           Commit(dynamics(start, end, heap, seq), Op("dynamics", start, end))

(***************************************************************************)
(* Inputs                                                                  *)
(***************************************************************************)
\* A point with the given offset; d < 0: no duration; m < 0: no midi_pitch.
MkPoint(o, d, m) ==
    [k \in {OFFSET_64} \cup (IF d >= 0 THEN {DURATION_64} ELSE {})
                       \cup (IF m >= 0 THEN {MIDI_PITCH} ELSE {}) |->
        IF k = OFFSET_64 THEN o ELSE IF k = DURATION_64 THEN d ELSE m]

\* Timed points of every duration, and pitched ones with and without a duration.
PointUniverse ==
    {MkPoint(o, d, -1) : o \in 0..MaxOffset, d \in -1..MaxDur}
    \cup {MkPoint(o, d, 60) : o \in 0..MaxOffset, d \in {-1, 1}}

IsSorted(ps) == \A i \in 1..Len(ps) - 1 : ps[i][OFFSET_64] <= ps[i + 1][OFFSET_64]

SortedSeqs(n) ==
    UNION {{ps \in [1..k -> PointUniverse] : IsSorted(ps)} : k \in 0..n}

\* The caller builds the sequence: fresh points, referenced in order.
Start(ps) ==
    /\ heap = ps
    /\ seq = [i \in 1..Len(ps) |-> i]
    /\ input = ps
    /\ prev = <<>>
    /\ hist = <<>>
    /\ err = NoErr

InitReverse == \E ps \in SortedSeqs(MaxLen) : Start(ps)

NextReverse == Reverse

SpecReverse == InitReverse /\ [][NextReverse]_vars

InitMap == \E ps \in SortedSeqs(MaxMapLen) : Start(ps)

NextMap == Stretch \/ Invert

SpecMap == InitMap /\ [][NextMap]_vars

\* A run of n notes, one after the other from offset first.
Run(n, first) == [i \in 1..n |-> MkPoint(first + i - 1, 1, 59 + i)]

InitDynamics == \E n \in 0..MaxNotes, first \in {0, 1} : Start(Run(n, first))

NextDynamics == Dynamics \/ Reverse

SpecDynamics == InitDynamics /\ [][NextDynamics]_vars

\* A note to engrave; cached: it already carries its rendered string.
MkNote(pitch, octave, duration, cached) ==
    [k \in {OFFSET_64, DURATION_64, "pitch", "octave"}
               \cup (IF cached THEN {"lilypond"} ELSE {}) |->
        CASE k = OFFSET_64 -> 0
          [] k = DURATION_64 -> duration
          [] k = "pitch" -> pitch
          [] k = "octave" -> octave
          [] k = "lilypond" -> <<"r", "4">>]

NoteUniverse ==
    {MkNote(pitch, octave, duration, cached) :
        pitch \in (-7 * MaxAccidental)..(7 * MaxAccidental + 6),
        octave \in 3..5, duration \in {0, 16, 64}, cached \in BOOLEAN}
    \cup {MkPoint(0, d, -1) : d \in {-1, 16}}

InitRender ==
    \E k \in 0..MaxMapLen : \E ps \in [1..k -> NoteUniverse] : Start(ps)

NextRender == Lilypond

SpecRender == InitRender /\ [][NextRender]_vars

(***************************************************************************)
(* Properties of reverse                                                   *)
(***************************************************************************)
ReverseOp == Op("reverse", NoneArg, NoneArg)

LastOp == hist[Len(hist)]

\* The Point values of the sequence the pipeline holds.
Result == Vals(heap, seq)

Count(ps, v) == Cardinality({i \in 1..Len(ps) : ps[i] = v})

SameBag(a, b) ==
    /\ Len(a) = Len(b)
    /\ \A i \in 1..Len(a) : Count(a, a[i]) = Count(b, a[i])

\* A point that carries its offset and nothing else.
Bare(o) == (OFFSET_64 :> o)

End(p) == p[OFFSET_64] + (IF DURATION_64 \in DOMAIN p THEN p[DURATION_64] ELSE 0)

Cursor(ps) ==
    IF ps = <<>> THEN 0
    ELSE CHOOSE m \in {End(ps[i]) : i \in 1..Len(ps)} :
             \A i \in 1..Len(ps) : End(ps[i]) <= m

\* p mirrored in a timeline that ends at cursor c.
Mirror(p, c) ==
    [k \in DOMAIN p |-> IF k = OFFSET_64 THEN c - End(p) ELSE p[k]]

StartsAtZero(ps) == ps # <<>> /\ ps[1][OFFSET_64] = 0

\* C1 as stated: on an offset-sorted sequence whose first element has offset
\* 0, reverse() applied twice gives back the multiset of points, sequences
\* with offset-only points included.
C1_ReverseTwiceAnySequence ==
    (hist = <<ReverseOp, ReverseOp>> /\ StartsAtZero(input))
        => SameBag(Result, input)

NoBareAtEnds(ps) ==
    \A i \in 1..Len(ps) : ps[i] # Bare(0) /\ ps[i] # Bare(Cursor(ps))

\* C1 amended: on an offset-sorted sequence whose first element has offset 0
\* and that holds no offset-only point at offset 0 or at its next_offset(),
\* reverse() applied twice gives back the multiset of points.
C1_ReverseTwice ==
    (hist = <<ReverseOp, ReverseOp>> /\ StartsAtZero(input) /\ NoBareAtEnds(input))
        => SameBag(Result, input)

C1_Witness ==
    /\ hist = <<ReverseOp, ReverseOp>>
    /\ StartsAtZero(input) /\ NoBareAtEnds(input)
    /\ Len(input) = 2
    /\ DOMAIN input[2] = {OFFSET_64}
    /\ DURATION_64 \in DOMAIN input[1]
    /\ input[1][DURATION_64] > input[2][OFFSET_64]
    /\ Result = input

\* How often reverse() of ps must hold the value v: once per input point
\* mirrored onto v, once more for the anchor of a sequence that does not start
\* at 0, and never when v is the bare point at offset 0.
Mirrored(ps, v) ==
    IF v = Bare(0) THEN 0
    ELSE Cardinality({i \in 1..Len(ps) : Mirror(ps[i], Cursor(ps)) = v})
         + (IF ps # <<>> /\ ps[1][OFFSET_64] # 0 /\ v = Bare(Cursor(ps)) THEN 1 ELSE 0)

\* C5: reverse() returns a sequence sorted by offset that holds, for each input
\* point p, a copy at offset next_offset() - p.offset - p.duration with its
\* other attributes unchanged, results equal to {offset: 0} dropped; the only
\* other point is the mirrored anchor of an input that does not start at 0.
C5_ReverseMirrors ==
    (hist # <<>> /\ LastOp = ReverseOp) =>
        /\ \A i \in 1..Len(Result) - 1 : Result[i][OFFSET_64] <= Result[i + 1][OFFSET_64]
        /\ \A i \in 1..Len(Result) : Count(Result, Result[i]) = Mirrored(prev, Result[i])
        /\ \A i \in 1..Len(prev) :
               LET v == Mirror(prev[i], Cursor(prev))
               IN Count(Result, v) = Mirrored(prev, v)
        /\ prev = <<>> => Result = <<>>

C5_Witness ==
    /\ hist = <<ReverseOp>>
    /\ prev = <<(OFFSET_64 :> 0 @@ DURATION_64 :> 4), (OFFSET_64 :> 4 @@ DURATION_64 :> 2)>>
    /\ Result = <<(OFFSET_64 :> 0 @@ DURATION_64 :> 2), (OFFSET_64 :> 2 @@ DURATION_64 :> 4)>>

\* C10: reverse() keeps the end-of-sequence cursor: the returned sequence has
\* the next_offset() of the input, whether or not the input starts at 0.
C10_ReverseKeepsCursor ==
    (hist # <<>> /\ LastOp = ReverseOp) => Cursor(Result) = Cursor(prev)

C10_Witness ==
    /\ hist # <<>> /\ LastOp = ReverseOp
    /\ Len(prev) = 2
    /\ prev[1][OFFSET_64] > 0
    /\ Cursor(prev) > prev[2][OFFSET_64]
    /\ Result[Len(Result)] = Bare(Cursor(prev))
    /\ Len(Result) = 3

(***************************************************************************)
(* Properties of the per-point transforms                                  *)
(***************************************************************************)
IsOp(o, name) == o.op = name

\* C6: invert(p) applied twice returns every midi_pitch exactly, and a point
\* without midi_pitch is left as it was by invert(p), with no midi_pitch key.
C6_InvertTwice ==
    /\ (Len(hist) = 2 /\ IsOp(hist[1], "invert") /\ hist[2] = hist[1]) =>
           /\ Len(Result) = Len(input)
           /\ \A i \in 1..Len(input) :
                  MIDI_PITCH \in DOMAIN input[i] =>
                      /\ MIDI_PITCH \in DOMAIN Result[i]
                      /\ Result[i][MIDI_PITCH] = input[i][MIDI_PITCH]
    /\ (hist # <<>> /\ IsOp(LastOp, "invert")) =>
           /\ Len(Result) = Len(prev)
           /\ \A i \in 1..Len(prev) :
                  MIDI_PITCH \notin DOMAIN prev[i] => Result[i] = prev[i]

C6_Witness ==
    /\ Len(hist) = 2 /\ IsOp(hist[1], "invert") /\ hist[2] = hist[1]
    /\ Len(input) = 1
    /\ MIDI_PITCH \in DOMAIN input[1]
    /\ prev[1][MIDI_PITCH] # input[1][MIDI_PITCH]
    /\ Result = input

\* x * n, the multiplier n a rational, is an integer
Whole(x, n) == (x * n.n) % n.d = 0

\* stretch(n) then stretch(m) of x, and stretch(m*n) of x, for x >= 0
Twice(x, n, m) == (((x * n.n) \div n.d) * m.n) \div m.d
AtOnce(x, n, m) == (x * n.n * m.n) \div (n.d * m.d)

StretchedTwice(got, x, n, m) ==
    /\ got = Twice(x, n, m)
    /\ got <= AtOnce(x, n, m)
    /\ Whole(x, n) => got = AtOnce(x, n, m)

\* C9: stretch(n) then stretch(m) leaves offset trunc(trunc(x*n)*m), and the
\* duration likewise when present; that is the trunc(x*m*n) of stretch(m*n)
\* whenever x*n is an integer, and is never more than it.
C9_StretchTwice ==
    (Len(hist) = 2 /\ IsOp(hist[1], "stretch") /\ IsOp(hist[2], "stretch")) =>
        /\ Len(Result) = Len(input)
        /\ \A i \in 1..Len(input) :
               /\ DOMAIN Result[i] = DOMAIN input[i]
               /\ StretchedTwice(Result[i][OFFSET_64], input[i][OFFSET_64],
                                 hist[1].a, hist[2].a)
               /\ DURATION_64 \in DOMAIN input[i] =>
                      StretchedTwice(Result[i][DURATION_64], input[i][DURATION_64],
                                     hist[1].a, hist[2].a)

C9_Witness ==
    /\ Len(hist) = 2 /\ IsOp(hist[1], "stretch") /\ IsOp(hist[2], "stretch")
    /\ Len(input) = 1
    /\ ~Whole(input[1][OFFSET_64], hist[1].a)
    /\ Result[1][OFFSET_64] < AtOnce(input[1][OFFSET_64], hist[1].a, hist[2].a)
    /\ DURATION_64 \in DOMAIN input[1]
    /\ Whole(input[1][DURATION_64], hist[1].a)
    /\ input[1][DURATION_64] > 0

(***************************************************************************)
(* Properties of dynamics                                                  *)
(***************************************************************************)
Markers == {"pppppp", "ppppp", "pppp", "ppp", "pp", "p", "mp", "mf", "f", "ff", "fff", "ffff"}

Recognized(x) == x.kind = "int" \/ (x.kind = "str" /\ x.s \in Markers)

\* The last transform was dynamics, called with velocities or known markers.
DynamicsApplied ==
    /\ hist # <<>>
    /\ IsOp(LastOp, "dynamics")
    /\ Recognized(LastOp.a)
    /\ LastOp.b = NoneArg \/ Recognized(LastOp.b)

\* C2: dynamics on a sequence of exactly one point ends without an error and
\* returns the sequence unchanged, the point without a velocity.
C2_DynamicsSinglePoint ==
    (DynamicsApplied /\ Len(prev) = 1) =>
        /\ err = NoErr
        /\ Result = prev
        /\ "velocity" \notin DOMAIN Result[1]

StartV == IF LastOp.a.kind = "int" THEN LastOp.a.n
          ELSE _dynamic_markers_to_velocity[LastOp.a.s]

EndV == IF LastOp.b = NoneArg THEN StartV
        ELSE IF LastOp.b.kind = "int" THEN LastOp.b.n
        ELSE _dynamic_markers_to_velocity[LastOp.b.s]

\* floor(start_v + pos * (end_v - start_v) / (n - 1))
Ramp(pos, n) == (StartV * (n - 1) + pos * (EndV - StartV)) \div (n - 1)

\* C3: on a sequence of n >= 2 points dynamics gives the point at position
\* pos the velocity floor(start_v + pos*(end_v - start_v)/(n - 1)), so the
\* first point start_v and the last end_v.
C3_DynamicsRamp ==
    (DynamicsApplied /\ Len(prev) >= 2) =>
        /\ err = NoErr
        /\ Len(Result) = Len(prev)
        /\ \A i \in 1..Len(Result) :
               /\ "velocity" \in DOMAIN Result[i]
               /\ Result[i]["velocity"] = Ramp(i - 1, Len(prev))
        /\ Result[1]["velocity"] = StartV
        /\ Result[Len(Result)]["velocity"] = EndV

\* The three-point examples of C3, which the code does give.
C3_ExamplesReached ==
    /\ DynamicsApplied /\ Len(prev) = 3 /\ LastOp.a = StrArg("p")
    /\ LastOp.b = StrArg("f")
    /\ [i \in 1..3 |-> Result[i]["velocity"]] = <<48, 66, 84>>

\* The markers of the last call that are not in the table.
Offending == {x \in {LastOp.a, LastOp.b} : x.kind = "str" /\ x.s \notin Markers}

\* C4: dynamics with a string that is not in the marker table fails with an
\* error that names that string, whether it was passed as start or as end.
C4_UnknownMarkerNamed ==
    (hist # <<>> /\ IsOp(LastOp, "dynamics") /\ Offending # {}) =>
        /\ err.type = "ValueError"
        /\ err.arg \in Offending

\* C7: neither dynamics nor reverse modifies its input: every point that
\* existed before the call, the input's points among them, has after it
\* exactly the key/value pairs it had.
C7_InputUntouched ==
    [][(hist' # hist /\ hist'[Len(hist')].op \in {"dynamics", "reverse"}) =>
           /\ Len(heap') >= Len(heap)
           /\ \A r \in 1..Len(heap) : heap'[r] = heap[r]]_vars

C7_Witness ==
    /\ Len(hist) = 2
    /\ IsOp(hist[1], "reverse") /\ IsOp(hist[2], "dynamics")
    /\ err = NoErr
    /\ Len(input) >= 2 /\ input[1][OFFSET_64] # 0
    /\ \A i \in 1..Len(input) : heap[i] = input[i]
    /\ \A i \in 1..Len(prev) : "velocity" \notin DOMAIN prev[i]
    /\ \A i \in 1..Len(Result) : "velocity" \in DOMAIN Result[i]

(***************************************************************************)
(* Properties of lilypond                                                  *)
(***************************************************************************)
Occurrences(tokens, token) == Cardinality({i \in 1..Len(tokens) : tokens[i] = token})

\* The accidentals of a pitch: sharps when positive, flats when negative.
Accidentals(pitch) == pitch \div 7

\* C8: a point rendered without a cached string gets the sharp suffix "is"
\* once per sharp, the flat suffix "es" once per flat, and no suffix when it
\* has no accidental.
C8_AccidentalSuffixes ==
    (hist # <<>> /\ IsOp(LastOp, "lilypond") /\ err = NoErr) =>
        \A i \in 1..Len(prev) :
            "lilypond" \notin DOMAIN prev[i] =>
                LET k == Accidentals(prev[i]["pitch"])
                    out == Result[i]["lilypond"]
                IN /\ Occurrences(out, "is") = (IF k > 0 THEN k ELSE 0)
                   /\ Occurrences(out, "es") = (IF k < 0 THEN -k ELSE 0)

\* The sharps and the naturals, which the code does render as C8 says.
C8_SharpsReached ==
    /\ hist # <<>> /\ IsOp(LastOp, "lilypond") /\ err = NoErr
    /\ Len(prev) = 1 /\ "lilypond" \notin DOMAIN prev[1]
    /\ Accidentals(prev[1]["pitch"]) = 2
    /\ Occurrences(Result[1]["lilypond"], "is") = 2

====
